---- MODULE Spec2Model ----
(***************************************************************************)
(* Model of aws-utils: create_cluster.py (client factory + Provisioner)    *)
(* and delete_cluster.py (Decommissioner), run by an operator against one  *)
(* cloud account.  The cloud account (IAM roles, attached policies,        *)
(* Redshift clusters) persists between runs; each run is one Python        *)
(* process executing main() statement by statement.                        *)
(***************************************************************************)
EXTENDS Integers, Sequences, FiniteSets, TLC

VARIABLES
    config,     \* dwh.cfg as read by configparser (strings)
    iamRoles,   \* cloud: names of the IAM roles that exist
    attached,   \* cloud: names of the roles with AmazonS3ReadOnlyAccess attached
    clusters,   \* cloud: identifiers of the Redshift clusters that exist
    prog,       \* which script the operator is running: "none", "create_cluster", "delete_cluster"
    pc,         \* the statement of main() (or of the function it called) about to run
    handles,    \* the boto3 clients main() unpacked into iam, redshift
    role_arn,   \* create_cluster.py: role_arn (unbound until get_role returns)
    calls,      \* the provider requests issued by the current run, in order
    stdout,     \* what the current run has printed
    raised,     \* the exception that left main(), "none" if none
    runs,       \* scripts the operator has started so far
    f_clients,  \* client factory check: the clients argument
    f_region,   \* client factory check: the region argument
    f_ret,      \* client factory check: the returned client_objs
    f_pc        \* client factory check: "call" or "returned"

vars == <<config, iamRoles, attached, clusters, prog, pc, handles, role_arn,
          calls, stdout, raised, runs, f_clients, f_region, f_ret, f_pc>>

cloudVars == <<iamRoles, attached, clusters>>
factoryVars == <<f_clients, f_region, f_ret, f_pc>>

\* ------------------------------------------------------------------ bounds

\* scripts the operator starts in one behaviour
MaxRuns == 2
\* longest sequence of service names handed to the client factory
MaxClients == 3

\* --------------------------------------------------------- Python values

\* A name that is not bound yet (reading it raises UnboundLocalError / NameError).
Undefined == [kind |-> "undefined", of |-> ""]

\* type(x) == str  versus a list of strings
PyStr(s) == [type |-> "str", val |-> s]
PyList(q) == [type |-> "list", val |-> q]

Ok(v) == [exc |-> "none", val |-> v]
Exc(kind) == [exc |-> kind, val |-> Undefined]

\* ------------------------------------------------------------ constants

\* create_cluster.py:26
ServiceNames == {"iam", "ec2", "s3", "redshift"}
Regions == {"us-west-2", "us-east-1"}
\* create_cluster.py:149, delete_cluster.py:19
REGION == "us-west-2"
\* create_cluster.py:87, delete_cluster.py:33
S3_READ_ONLY == "arn:aws:iam::aws:policy/AmazonS3ReadOnlyAccess"

\* DWH_NUM_NODES as configparser hands it over: a string, here its characters
NumNodesValues == {<<"4">>, <<"1", "6">>, <<"f", "o", "u", "r">>}
RoleNames == {"dwhRole"}
ClusterIds == {"dwhCluster"}

Configs ==
    [KEY : {"AKIA"}, SECRET : {"s3cr3t"},
     DWH_IAM_ROLE_NAME : RoleNames,
     DWH_CLUSTER_TYPE : {"multi-node"},
     DWH_NODE_TYPE : {"dc2.large"},
     DWH_NUM_NODES : NumNodesValues,
     DWH_DB : {"dwh"},
     DWH_CLUSTER_IDENTIFIER : ClusterIds,
     DWH_DB_USER : {"dwhuser"},
     DWH_DB_PASSWORD : {"Passw0rd"}]

\* the ARN the provider assigns to a role
ArnOf(role) == [kind |-> "arn:aws:iam::role", of |-> role]

\* ['ResponseMetadata']['HTTPStatusCode'] of an accepted request
HttpOk == [kind |-> "HTTPStatusCode", of |-> "200"]

\* ------------------------------------------------------- pure functions

DigitChars == {"0", "1", "2", "3", "4", "5", "6", "7", "8", "9"}

DigitVal(c) ==
    CASE c = "0" -> 0 [] c = "1" -> 1 [] c = "2" -> 2 [] c = "3" -> 3
      [] c = "4" -> 4 [] c = "5" -> 5 [] c = "6" -> 6 [] c = "7" -> 7
      [] c = "8" -> 8 [] c = "9" -> 9

RECURSIVE DigitsValue(_)
DigitsValue(s) ==
    IF s = <<>> THEN 0
    ELSE DigitsValue(SubSeq(s, 1, Len(s) - 1)) * 10 + DigitVal(s[Len(s)])

\* int(num_nodes): decimal digits with an optional sign, ValueError otherwise
py_int(s) ==
    LET signed == s # <<>> /\ s[1] \in {"+", "-"}
        digits == IF signed THEN Tail(s) ELSE s
    IN  IF digits # <<>> /\ \A i \in DOMAIN digits : digits[i] \in DigitChars
        THEN Ok(IF signed /\ s[1] = "-" THEN 0 - DigitsValue(digits)
                ELSE DigitsValue(digits))
        ELSE Exc("ValueError")

\* boto3.client(client, region_name=, aws_access_key_id=, aws_secret_access_key=)
boto3_client(client, region, key, secret) ==
    [service_name |-> client, region_name |-> region,
     aws_access_key_id |-> key, aws_secret_access_key |-> secret]

\* iterating a str yields its characters
StrChars(s) ==
    CASE s = "iam" -> <<"i", "a", "m">>
      [] s = "ec2" -> <<"e", "c", "2">>
      [] s = "s3" -> <<"s", "3">>
      [] s = "redshift" -> <<"r", "e", "d", "s", "h", "i", "f", "t">>
      [] OTHER -> <<s>>

\* faulty variant: the scalar is not wrapped into a list, so the comprehension iterates
\* over its characters
create_aws_clients_nowrap(clients, region, key, secret) ==
    LET names == IF clients.type = "str" THEN StrChars(clients.val) ELSE clients.val
    IN  [i \in 1..Len(names) |-> boto3_client(names[i], region, key, secret)]

\* faulty variant: every handle is built for the first requested service
create_aws_clients_first(clients, region, key, secret) ==
    LET names == IF clients.type = "str" THEN <<clients.val>> ELSE clients.val
    IN  [i \in 1..Len(names) |-> boto3_client(names[1], region, key, secret)]

create_aws_clients(clients, region, key, secret) ==
    LET names == IF clients.type = "str" THEN <<clients.val>> ELSE clients.val
    IN  [i \in 1..Len(names) |-> boto3_client(names[i], region, key, secret)]

\* Binding a positional call to def create_aws_clients(clients, region, key, secret):
\* four required parameters, TypeError for any other number of arguments.
call_create_aws_clients(args) ==
    IF Len(args) # 4
    THEN Exc("TypeError")
    ELSE Ok(create_aws_clients(args[1], args[2], args[3], args[4]))

\* iam, redshift = <result>: the result must hold exactly two objects
unpack_iam_redshift(r) ==
    IF r.exc # "none" THEN r
    ELSE IF Len(r.val) # 2 THEN Exc("ValueError")
    ELSE r

\* --------------------------------------------------------- cloud provider

\* What the provider requires before it accepts a request.  Any request may
\* also fail for a reason of the provider's own (throttling, network, denied).
ProviderAccepts(op, target) ==
    CASE op = "create_role" -> target \notin iamRoles
      [] op = "attach_role_policy" -> target \in iamRoles
      [] op = "get_role" -> target \in iamRoles
      [] op = "create_cluster" -> target \notin clusters
      [] op = "describe_clusters" -> target \in clusters
      [] op = "delete_cluster" -> target \in clusters
      [] op = "detach_role_policy" -> target \in iamRoles /\ target \in attached
      [] op = "delete_role" -> target \in iamRoles /\ target \notin attached

\* the outcomes a request can have: failure always, success when accepted
Outcomes(op, target) == {ok \in BOOLEAN : ok => ProviderAccepts(op, target)}

\* one request as the provider saw it, with what it answered
Request(client, op, args, ok, ret) ==
    [client |-> client, op |-> op, args |-> args, ok |-> ok, ret |-> ret]

iam == handles[1]
redshift == handles[2]

\* an exception nobody catches: traceback on the terminal, the process ends
Uncaught(kind, out) ==
    /\ pc' = "exit"
    /\ raised' = kind
    /\ stdout' = Append(out, "Traceback")

\* ------------------------------------------------------------- operator

\* python create_cluster.py
RunCreateCluster ==
    /\ prog = "none"
    /\ runs < MaxRuns
    /\ prog' = "create_cluster"
    /\ pc' = "main_clients"
    /\ runs' = runs + 1
    /\ handles' = <<>>
    /\ role_arn' = Undefined
    /\ calls' = <<>>
    /\ stdout' = <<>>
    /\ raised' = "none"
    /\ UNCHANGED <<config, cloudVars, factoryVars>>

\* python delete_cluster.py
RunDeleteCluster ==
    /\ prog = "none"
    /\ runs < MaxRuns
    /\ prog' = "delete_cluster"
    /\ pc' = "main_clients"
    /\ runs' = runs + 1
    /\ handles' = <<>>
    /\ role_arn' = Undefined
    /\ calls' = <<>>
    /\ stdout' = <<>>
    /\ raised' = "none"
    /\ UNCHANGED <<config, cloudVars, factoryVars>>

\* the process has ended; the operator has the terminal back
ProcessExit ==
    /\ prog # "none"
    /\ pc = "exit"
    /\ prog' = "none"
    /\ pc' = "idle"
    /\ UNCHANGED <<config, cloudVars, handles, role_arn, calls, stdout, raised,
                   runs, factoryVars>>

\* ----------------------------------------------- create_cluster.py: main

\* iam, redshift = create_aws_clients(['iam', 'redshift'], 'us-west-2', KEY, SECRET)
main_create_aws_clients ==
    /\ prog = "create_cluster"
    /\ pc = "main_clients"
    /\ LET r == unpack_iam_redshift(call_create_aws_clients(
                    <<PyList(<<"iam", "redshift">>), REGION, config.KEY, config.SECRET>>))
       IN  IF r.exc # "none"
           THEN Uncaught(r.exc, stdout) /\ UNCHANGED handles
           ELSE /\ handles' = r.val
                /\ pc' = "create_role"
                /\ UNCHANGED <<stdout, raised>>
    /\ UNCHANGED <<config, cloudVars, prog, role_arn, calls, runs, factoryVars>>

\* create_iam_role, 1.1: try: iam_client.create_role(...) except Exception as e: print(e)
create_role ==
    /\ prog = "create_cluster"
    /\ pc = "create_role"
    /\ LET name == config.DWH_IAM_ROLE_NAME
       IN  \E ok \in Outcomes("create_role", name) :
             /\ calls' = Append(calls,
                    Request(iam.service_name, "create_role",
                            [RoleName |-> name, Principal |-> "redshift.amazonaws.com"],
                            ok, IF ok THEN ArnOf(name) ELSE Undefined))
             /\ iamRoles' = IF ok THEN iamRoles \cup {name} ELSE iamRoles
             /\ stdout' = IF ok THEN Append(stdout, "1.1 Creating a new IAM Role")
                          ELSE stdout \o <<"1.1 Creating a new IAM Role", "create_role error">>
    /\ pc' = "attach_role_policy"
    /\ UNCHANGED <<config, attached, clusters, prog, handles, role_arn, raised,
                   runs, factoryVars>>

\* faulty variant: the attachment is left out of create_iam_role
attach_role_policy_omitted ==
    /\ prog = "create_cluster"
    /\ pc = "attach_role_policy"
    /\ stdout' = Append(stdout, "1.2 Attaching Policy")
    /\ pc' = "get_role"
    /\ UNCHANGED <<config, cloudVars, prog, handles, role_arn, calls, raised,
                   runs, factoryVars>>

\* faulty variant: the attachment is wrapped in the same try/except as create_role
attach_role_policy_swallowed ==
    /\ prog = "create_cluster"
    /\ pc = "attach_role_policy"
    /\ LET name == config.DWH_IAM_ROLE_NAME
       IN  \E ok \in Outcomes("attach_role_policy", name) :
             /\ calls' = Append(calls,
                    Request(iam.service_name, "attach_role_policy",
                            [RoleName |-> name, PolicyArn |-> S3_READ_ONLY],
                            ok, IF ok THEN HttpOk ELSE Undefined))
             /\ attached' = IF ok THEN attached \cup {name} ELSE attached
             /\ stdout' = IF ok THEN Append(stdout, "1.2 Attaching Policy")
                          ELSE stdout \o <<"1.2 Attaching Policy", "attach_role_policy error">>
    /\ pc' = "get_role"
    /\ UNCHANGED <<config, iamRoles, clusters, prog, handles, role_arn, raised,
                   runs, factoryVars>>

\* create_iam_role, 1.2: iam_client.attach_role_policy(...), not inside any try
attach_role_policy ==
    /\ prog = "create_cluster"
    /\ pc = "attach_role_policy"
    /\ LET name == config.DWH_IAM_ROLE_NAME
           out == Append(stdout, "1.2 Attaching Policy")
       IN  \E ok \in Outcomes("attach_role_policy", name) :
             /\ calls' = Append(calls,
                    Request(iam.service_name, "attach_role_policy",
                            [RoleName |-> name, PolicyArn |-> S3_READ_ONLY],
                            ok, IF ok THEN HttpOk ELSE Undefined))
             /\ attached' = IF ok THEN attached \cup {name} ELSE attached
             /\ IF ok
                THEN /\ pc' = "get_role"
                     /\ stdout' = out
                     /\ UNCHANGED raised
                ELSE Uncaught("ClientError", out)
    /\ UNCHANGED <<config, iamRoles, clusters, prog, handles, role_arn, runs, factoryVars>>

\* faulty variant: a failed read-back is caught and printed, role_arn stays unbound
get_role_swallowed ==
    /\ prog = "create_cluster"
    /\ pc = "get_role"
    /\ LET name == config.DWH_IAM_ROLE_NAME
           out == Append(stdout, "1.3 Get the IAM role ARN")
       IN  \E ok \in Outcomes("get_role", name) :
             /\ calls' = Append(calls,
                    Request(iam.service_name, "get_role", [RoleName |-> name],
                            ok, IF ok THEN ArnOf(name) ELSE Undefined))
             /\ role_arn' = IF ok THEN ArnOf(name) ELSE role_arn
             /\ stdout' = IF ok THEN Append(out, "Successful IAM role creation")
                          ELSE Append(out, "get_role error")
    /\ pc' = "create_redshift_cluster"
    /\ UNCHANGED <<config, cloudVars, prog, handles, raised, runs, factoryVars>>

\* create_iam_role, 1.3: role_arn = iam_client.get_role(...)['Role']['Arn']; return role_arn
get_role ==
    /\ prog = "create_cluster"
    /\ pc = "get_role"
    /\ LET name == config.DWH_IAM_ROLE_NAME
           out == Append(stdout, "1.3 Get the IAM role ARN")
       IN  \E ok \in Outcomes("get_role", name) :
             /\ calls' = Append(calls,
                    Request(iam.service_name, "get_role", [RoleName |-> name],
                            ok, IF ok THEN ArnOf(name) ELSE Undefined))
             /\ IF ok
                THEN /\ role_arn' = ArnOf(name)
                     /\ pc' = "create_redshift_cluster"
                     /\ stdout' = Append(out, "Successful IAM role creation")
                     /\ UNCHANGED raised
                ELSE Uncaught("ClientError", out) /\ UNCHANGED role_arn
    /\ UNCHANGED <<config, cloudVars, prog, handles, runs, factoryVars>>

\* the keyword arguments of redshift_client.create_cluster(...)
create_cluster_args(nodes) ==
    [ClusterType |-> config.DWH_CLUSTER_TYPE,
     NodeType |-> config.DWH_NODE_TYPE,
     NumberOfNodes |-> nodes,
     DBName |-> config.DWH_DB,
     ClusterIdentifier |-> config.DWH_CLUSTER_IDENTIFIER,
     MasterUsername |-> config.DWH_DB_USER,
     MasterUserPassword |-> config.DWH_DB_PASSWORD,
     IamRoles |-> <<role_arn>>]

\* faulty variant: no try/except around the request, a failure leaves main()
create_redshift_cluster_propagates ==
    /\ prog = "create_cluster"
    /\ pc = "create_redshift_cluster"
    /\ LET n == py_int(config.DWH_NUM_NODES)
           id == config.DWH_CLUSTER_IDENTIFIER
       IN  IF n.exc # "none"
           THEN /\ Uncaught(n.exc, stdout)
                /\ UNCHANGED <<calls, clusters>>
           ELSE \E ok \in Outcomes("create_cluster", id) :
                  /\ calls' = Append(calls,
                         Request(redshift.service_name, "create_cluster",
                                 create_cluster_args(n.val), ok, Undefined))
                  /\ clusters' = IF ok THEN clusters \cup {id} ELSE clusters
                  /\ IF ok
                     THEN /\ stdout' = Append(stdout, "Successful Redshift Cluster Creation")
                          /\ pc' = "display_cluster_props"
                          /\ UNCHANGED raised
                     ELSE Uncaught("ClientError", stdout)
    /\ UNCHANGED <<config, iamRoles, attached, prog, handles, role_arn, runs, factoryVars>>

\* create_redshift_cluster: try: create_cluster(..., NumberOfNodes=int(num_nodes), ...)
\* except Exception as e: print(e).  int() runs inside the try, before the request.
create_redshift_cluster ==
    /\ prog = "create_cluster"
    /\ pc = "create_redshift_cluster"
    /\ LET n == py_int(config.DWH_NUM_NODES)
           id == config.DWH_CLUSTER_IDENTIFIER
       IN  IF n.exc # "none"
           THEN /\ stdout' = Append(stdout, "create_cluster error")
                /\ UNCHANGED <<calls, clusters>>
           ELSE \E ok \in Outcomes("create_cluster", id) :
                  /\ calls' = Append(calls,
                         Request(redshift.service_name, "create_cluster",
                                 create_cluster_args(n.val), ok, Undefined))
                  /\ clusters' = IF ok THEN clusters \cup {id} ELSE clusters
                  /\ stdout' = IF ok
                               THEN Append(stdout, "Successful Redshift Cluster Creation")
                               ELSE Append(stdout, "create_cluster error")
    /\ pc' = "display_cluster_props"
    /\ UNCHANGED <<config, iamRoles, attached, prog, handles, role_arn, raised,
                   runs, factoryVars>>

\* display_cluster_props: describe_clusters(ClusterIdentifier=cluster_id)['Clusters'][0],
\* printed; not inside any try.  main() returns after it.
display_cluster_props ==
    /\ prog = "create_cluster"
    /\ pc = "display_cluster_props"
    /\ LET id == config.DWH_CLUSTER_IDENTIFIER
       IN  \E ok \in Outcomes("describe_clusters", id) :
             /\ calls' = Append(calls,
                    Request(redshift.service_name, "describe_clusters",
                            [ClusterIdentifier |-> id], ok, Undefined))
             /\ IF ok
                THEN /\ stdout' = Append(stdout, "myClusterProps")
                     /\ pc' = "exit"
                     /\ UNCHANGED raised
                ELSE Uncaught("ClientError", stdout)
    /\ UNCHANGED <<config, cloudVars, prog, handles, role_arn, runs, factoryVars>>

\* ----------------------------------------------- delete_cluster.py: main

\* One statement of delete_cluster.main(), chosen by pc.  None of the three
\* requests is inside a try: a failure leaves main().
delete_cluster_main ==
    /\ prog = "delete_cluster"
    /\ IF pc = "main_clients"
       THEN \* iam, redshift = create_aws_clients('us-west-2', KEY, SECRET)
            /\ LET r == unpack_iam_redshift(call_create_aws_clients(
                            <<PyStr(REGION), config.KEY, config.SECRET>>))
               IN  IF r.exc # "none"
                   THEN Uncaught(r.exc, stdout) /\ UNCHANGED handles
                   ELSE /\ handles' = r.val
                        /\ pc' = "delete_cluster"
                        /\ UNCHANGED <<stdout, raised>>
            /\ UNCHANGED <<calls, cloudVars>>
       ELSE IF pc = "delete_cluster"
       THEN \* redshift.delete_cluster(ClusterIdentifier=..., SkipFinalClusterSnapshot=True)
            LET id == config.DWH_CLUSTER_IDENTIFIER
            IN  \E ok \in Outcomes("delete_cluster", id) :
                  /\ calls' = Append(calls,
                         Request(redshift.service_name, "delete_cluster",
                                 [ClusterIdentifier |-> id,
                                  SkipFinalClusterSnapshot |-> TRUE], ok, Undefined))
                  /\ clusters' = IF ok THEN clusters \ {id} ELSE clusters
                  /\ IF ok
                     THEN pc' = "detach_role_policy" /\ UNCHANGED <<stdout, raised>>
                     ELSE Uncaught("ClientError", stdout)
                  /\ UNCHANGED <<handles, iamRoles, attached>>
       ELSE IF pc = "detach_role_policy"
       THEN \* iam.detach_role_policy(RoleName=..., PolicyArn=...)
            LET name == config.DWH_IAM_ROLE_NAME
            IN  \E ok \in Outcomes("detach_role_policy", name) :
                  /\ calls' = Append(calls,
                         Request(iam.service_name, "detach_role_policy",
                                 [RoleName |-> name, PolicyArn |-> S3_READ_ONLY],
                                 ok, Undefined))
                  /\ attached' = IF ok THEN attached \ {name} ELSE attached
                  /\ IF ok
                     THEN pc' = "delete_role" /\ UNCHANGED <<stdout, raised>>
                     ELSE Uncaught("ClientError", stdout)
                  /\ UNCHANGED <<handles, iamRoles, clusters>>
       ELSE \* iam.delete_role(RoleName=...); print('Cluster and IAM role deleted')
            /\ pc = "delete_role"
            /\ LET name == config.DWH_IAM_ROLE_NAME
               IN  \E ok \in Outcomes("delete_role", name) :
                     /\ calls' = Append(calls,
                            Request(iam.service_name, "delete_role",
                                    [RoleName |-> name], ok, Undefined))
                     /\ iamRoles' = IF ok THEN iamRoles \ {name} ELSE iamRoles
                     /\ IF ok
                        THEN /\ stdout' = Append(stdout, "Cluster and IAM role deleted")
                             /\ pc' = "exit"
                             /\ UNCHANGED raised
                        ELSE Uncaught("ClientError", stdout)
                     /\ UNCHANGED <<handles, attached, clusters>>
    /\ UNCHANGED <<config, prog, role_arn, runs, factoryVars>>

\* --------------------------------------------------------- specification

\* The account before the first run: any roles, attachments and clusters
\* (a policy is attached only to a role that exists).
Init ==
    /\ config \in Configs
    /\ iamRoles \in SUBSET RoleNames
    /\ attached \in SUBSET iamRoles
    /\ clusters \in SUBSET ClusterIds
    /\ prog = "none"
    /\ pc = "idle"
    /\ handles = <<>>
    /\ role_arn = Undefined
    /\ calls = <<>>
    /\ stdout = <<>>
    /\ raised = "none"
    /\ runs = 0
    /\ f_clients = PyList(<<>>)
    /\ f_region = REGION
    /\ f_ret = <<>>
    /\ f_pc = "unused"

Next ==
    \/ RunCreateCluster
    \/ RunDeleteCluster
    \/ ProcessExit
    \/ main_create_aws_clients
    \/ create_role
    \/ attach_role_policy
    \/ get_role
    \/ create_redshift_cluster
    \/ display_cluster_props
    \/ delete_cluster_main

Spec == Init /\ [][Next]_vars

\* ------------------------------------------- client factory on its own

RECURSIVE SeqsUpTo(_, _)
SeqsUpTo(S, n) ==
    IF n = 0 THEN {<<>>}
    ELSE LET shorter == SeqsUpTo(S, n - 1)
         IN  shorter \cup {Append(q, x) : q \in shorter, x \in S}

\* the clients argument: one name as a str, or a list of names
ClientsInputs ==
    {PyStr(s) : s \in ServiceNames} \cup {PyList(q) : q \in SeqsUpTo(ServiceNames, MaxClients)}

FactoryInit ==
    /\ config \in Configs
    /\ iamRoles = {}
    /\ attached = {}
    /\ clusters = {}
    /\ prog = "none"
    /\ pc = "idle"
    /\ handles = <<>>
    /\ role_arn = Undefined
    /\ calls = <<>>
    /\ stdout = <<>>
    /\ raised = "none"
    /\ runs = 0
    /\ f_clients \in ClientsInputs
    /\ f_region \in Regions
    /\ f_ret = <<>>
    /\ f_pc = "call"

\* client_objs = create_aws_clients(clients, region, key, secret)
FactoryCall ==
    /\ f_pc = "call"
    /\ f_ret' = create_aws_clients(f_clients, f_region, config.KEY, config.SECRET)
    /\ f_pc' = "returned"
    /\ UNCHANGED <<config, cloudVars, prog, pc, handles, role_arn, calls, stdout,
                   raised, runs, f_clients, f_region>>

FactoryNext == FactoryCall

FactorySpec == FactoryInit /\ [][FactoryNext]_vars

\* ------------------------------------------------------------ properties

\* positions in the current run's request log of the requests named op
Idx(op) == {i \in DOMAIN calls : calls[i].op = op}

ConfiguredRole == config.DWH_IAM_ROLE_NAME

\* C1: in a Provisioner run, every create-cluster request is preceded by a
\* create-role request, and the ARN it carries was returned by an earlier
\* get-role request that was itself preceded by the attach-role-policy request.
C1_RoleBeforeCluster ==
    \A j \in Idx("create_cluster") :
        /\ \E i \in Idx("create_role") : i < j
        /\ \E k \in Idx("get_role") :
             /\ k < j
             /\ calls[k].ok
             /\ calls[j].args.IamRoles = <<calls[k].ret>>
             /\ \E i \in Idx("attach_role_policy") : i < k

\* a run that created the role itself and went on to request the cluster
C1_Witness ==
    /\ prog = "create_cluster"
    /\ \E j \in Idx("create_cluster"), i \in Idx("create_role") : i < j /\ calls[i].ok

\* C2: the Decommissioner issues delete-role only after it issued delete-cluster
\* and detach-role-policy in the same run.  (Holds because no Decommissioner
\* run issues any request, see C3_DecommissionerCompletes.)
C2_DeleteRoleLast ==
    \A j \in Idx("delete_role") :
        /\ \E i \in Idx("delete_cluster") : i < j
        /\ \E i \in Idx("detach_role_policy") : i < j

\* what delete_cluster.main() reaches: it ends in create_aws_clients' TypeError
\* with nothing requested and nothing printed but the traceback
delete_cluster_issues_nothing ==
    prog = "delete_cluster" =>
        /\ calls = <<>>
        /\ pc \in {"main_clients", "exit"}
        /\ pc = "exit" => raised = "TypeError" /\ stdout = <<"Traceback">>

\* C3: a Decommissioner run in which no provider call failed has, when the
\* process ends, issued delete-cluster, detach-role-policy and delete-role in
\* that order and printed the deletion confirmation.
C3_DecommissionerCompletes ==
    (/\ prog = "delete_cluster"
     /\ pc = "exit"
     /\ \A i \in DOMAIN calls : calls[i].ok)
    => /\ Len(calls) = 3
       /\ calls[1].op = "delete_cluster"
       /\ calls[2].op = "detach_role_policy"
       /\ calls[3].op = "delete_role"
       /\ raised = "none"
       /\ stdout = <<"Cluster and IAM role deleted">>

\* C4: for a list of n service names create_aws_clients returns n handles, the
\* i-th bound to the i-th name, the region and the credentials; ["iam",
\* "redshift"] gives exactly two, IAM first and Redshift second.
C4_OneHandlePerName ==
    (f_pc = "returned" /\ f_clients.type = "list") =>
        /\ Len(f_ret) = Len(f_clients.val)
        /\ \A i \in DOMAIN f_ret :
             f_ret[i] = boto3_client(f_clients.val[i], f_region, config.KEY, config.SECRET)
        /\ f_clients.val = <<"iam", "redshift">> =>
             /\ Len(f_ret) = 2
             /\ f_ret[1].service_name = "iam"
             /\ f_ret[2].service_name = "redshift"

C4_Witness ==
    /\ f_pc = "returned"
    /\ f_clients = PyList(<<"iam", "redshift">>)
    /\ Len(f_ret) = 2

\* C5: called with a scalar name s, create_aws_clients returns what it returns
\* for the list [s]: exactly one handle, bound to s and the region.
C5_ScalarAsSingleton ==
    (f_pc = "returned" /\ f_clients.type = "str") =>
        /\ f_ret = create_aws_clients(PyList(<<f_clients.val>>), f_region,
                                      config.KEY, config.SECRET)
        /\ Len(f_ret) = 1
        /\ f_ret[1].service_name = f_clients.val
        /\ f_ret[1].region_name = f_region

C5_Witness ==
    /\ f_pc = "returned"
    /\ f_clients = PyStr("redshift")
    /\ Len(f_ret) = 1

\* C6: every delete-cluster request carries SkipFinalClusterSnapshot = TRUE.
\* (Holds because no delete-cluster request is ever issued.)
C6_SkipFinalSnapshot ==
    \A i \in Idx("delete_cluster") : calls[i].args.SkipFinalClusterSnapshot = TRUE

\* C7: whenever the Provisioner has requested cluster creation, an earlier
\* attach-role-policy request for the configured role and the storage policy
\* succeeded, and the role exists with the policy attached; after a failed
\* attachment, or while the role does not exist, no cluster creation is requested.
C7_PolicyAttachedBeforeCluster ==
    /\ \A j \in Idx("create_cluster") :
         /\ \E i \in Idx("attach_role_policy") :
              /\ i < j
              /\ calls[i].ok
              /\ calls[i].args.RoleName = ConfiguredRole
              /\ calls[i].args.PolicyArn = S3_READ_ONLY
         /\ ConfiguredRole \in iamRoles
         /\ ConfiguredRole \in attached
    /\ (\E i \in Idx("attach_role_policy") : ~calls[i].ok) => Idx("create_cluster") = {}
    /\ (prog = "create_cluster" /\ ConfiguredRole \notin iamRoles) => Idx("create_cluster") = {}

\* the cluster was requested for a role with the policy attached by this run
C7_Witness ==
    /\ prog = "create_cluster"
    /\ Idx("create_cluster") # {}
    /\ \E i \in Idx("attach_role_policy") : calls[i].ok
    /\ ConfiguredRole \in attached

\* C8: in the Decommissioner a failed request is the last request of the run,
\* and the confirmation is printed only after three successful requests.
\* (Holds because no Decommissioner run issues any request.)
C8_FailureAborts ==
    prog = "delete_cluster" =>
        /\ \A i \in DOMAIN calls : ~calls[i].ok => (i = Len(calls) /\ raised # "none")
        /\ (\E i \in DOMAIN stdout : stdout[i] = "Cluster and IAM role deleted") =>
             (Len(calls) = 3 /\ \A i \in DOMAIN calls : calls[i].ok)

\* C9 as stated: a Provisioner run whose create-role request failed for a role
\* that does not exist continues, and by the time the process ends it has
\* requested cluster creation with a role reference no get-role returned.
C9_UndefinedArnReachesCluster ==
    (/\ prog = "create_cluster"
     /\ pc = "exit"
     /\ \E i \in Idx("create_role") : ~calls[i].ok
     /\ ConfiguredRole \notin iamRoles)
    => \E j \in Idx("create_cluster") : calls[j].args.IamRoles = <<Undefined>>

\* C9 amended: a failed create-role request is caught and printed and the run
\* continues, with role_arn still unbound, to the attach-role-policy request;
\* but every create-cluster request carries the ARN that an earlier successful
\* get-role request of the same run returned, never an undefined one.
C9_ArnAlwaysFromGetRole ==
    /\ \A i \in Idx("create_role") :
         ~calls[i].ok =>
            /\ \E m \in DOMAIN stdout : stdout[m] = "create_role error"
            /\ IF i = Len(calls)
               THEN pc = "attach_role_policy" /\ raised = "none" /\ role_arn = Undefined
               ELSE calls[i + 1].op = "attach_role_policy"
    /\ \A j \in Idx("create_cluster") :
         /\ calls[j].args.IamRoles # <<Undefined>>
         /\ \E k \in Idx("get_role") :
              k < j /\ calls[k].ok /\ calls[j].args.IamRoles = <<calls[k].ret>>

\* create-role failed (the role was there already) and the cluster was requested
C9_Witness ==
    /\ prog = "create_cluster"
    /\ \E i \in Idx("create_role") : ~calls[i].ok
    /\ \E j \in Idx("create_cluster") : calls[j].args.IamRoles = <<ArnOf(ConfiguredRole)>>

\* C10: once create_redshift_cluster is entered (create_iam_role has returned
\* role_arn), the run issues at most one create-cluster request, a failure of
\* it does not leave main(), and when the process ends exactly one
\* describe-clusters request for the configured cluster has followed.
C10_OneCreateThenOneDescribe ==
    /\ Cardinality(Idx("create_cluster")) <= 1
    /\ Cardinality(Idx("describe_clusters")) <= 1
    /\ \A d \in Idx("describe_clusters") :
         /\ calls[d].args.ClusterIdentifier = config.DWH_CLUSTER_IDENTIFIER
         /\ \A j \in Idx("create_cluster") : j < d
    /\ (prog = "create_cluster" /\ pc = "display_cluster_props") => raised = "none"
    /\ (prog = "create_cluster" /\ pc = "exit" /\ role_arn # Undefined) =>
         /\ Cardinality(Idx("describe_clusters")) = 1
         /\ \A j \in Idx("create_cluster") : ~calls[j].ok => calls[j + 1].op = "describe_clusters"

\* the create-cluster request failed and the status query was still issued
C10_Witness ==
    /\ prog = "create_cluster"
    /\ pc = "exit"
    /\ \E j \in Idx("create_cluster") : ~calls[j].ok
    /\ Idx("describe_clusters") # {}

====
